---- MODULE Spec2Model ----
(***************************************************************************)
(* A model of x32.py, the queue-based OSC client of a Behringer X32 mixer: *)
(*   - the request/response calls get_value, set_value and set_state of    *)
(*     one BehringerX32 client talking to one device over UDP;             *)
(*   - the discovery of the mixer by __search_mixer__ and its probe        *)
(*     threads __try_to_ping_mixer__.                                      *)
(* Python values are modelled with their types, because the code's         *)
(* behaviour depends on them (len() of a float raises TypeError).          *)
(* Floats are integers in units of 10^-7, so that round(x, 6) is a real    *)
(* conversion.  Time is counted in ticks and saturates one tick above the  *)
(* timeout, the only threshold the code compares it with.                  *)
(***************************************************************************)
EXTENDS Integers, Sequences, FiniteSets, TLC

\* ------------------------------------------------------------------ bounds
Timeout == 2        \* self._timeout, in ticks
MaxQueue == 2       \* messages the input queue holds in the model
MaxNet == 1         \* datagrams in flight from the device to the client
MaxSent == 2        \* datagrams of one call that the model counts

\* ------------------------------------------------------------- Python values
\* A scalar OSC argument: float (v in units of 10^-7), nan, int, str, blob.
Fl(n) == [t |-> "float", v |-> n, s |-> <<>>]
NaN == [t |-> "nan", v |-> 0, s |-> <<>>]
In(n) == [t |-> "int", v |-> n, s |-> <<>>]
St(s) == [t |-> "str", v |-> 0, s |-> s]
Bl(s) == [t |-> "blob", v |-> 0, s |-> s]

\* type(x) is float
IsFloat(x) == x.t \in {"float", "nan"}
\* len(x) and x[0] are defined for str and bytes, and raise TypeError for numbers
HasLen(x) == x.t \in {"str", "blob"}

\* round(x, 6) of a non-negative float held in units of 10^-7 (half to even)
Round6(n) ==
    LET r == n % 10
        lo == n - r
    IN  IF r < 5 THEN lo
        ELSE IF r > 5 THEN lo + 10
        ELSE IF (lo \div 10) % 2 = 0 THEN lo ELSE lo + 10

\* --------------------------------------------------------------- the registry
FaderPath == "/ch/01/mix/fader"
OnPath == "/ch/01/mix/on"
Paths == {FaderPath, OnPath}
\* setting_paths = x32parameters.get_settings(), line 58: the registry in its order
setting_paths == <<FaderPath, OnPath>>
\* the address of the "stay subscribed" message (the comment of line 76)
XRemotePath == "/xremote"
\* a path that x32parameters.get_settings() does not list
UnknownPath == "/no/such/parameter"

\* key.endswith("fader")
IsFader(p) == p = FaderPath
\* the position of a path in sorted() order (string comparison)
PathRank(p) == IF p = FaderPath THEN 1 ELSE 2

\* sorted(S) for a set of paths
Sorted(S) ==
    CHOOSE q \in [1..Cardinality(S) -> S] :
        \A a, b \in 1..Cardinality(S) : a < b => PathRank(q[a]) < PathRank(q[b])

\* ------------------------------------------------------------------ set_state
\* The states given to set_state: the captured value of each key.
FaderValues == {Fl(7500000), Fl(0)}
OnValues == {In(1)}
StateInputs ==
    { st \in UNION { [K -> FaderValues \cup OnValues] : K \in (SUBSET Paths) \ {{}} } :
        \A k \in DOMAIN st : st[k] \in (IF IsFader(k) THEN FaderValues ELSE OnValues) }

\* Whether the state object has an iterkeys() method.  A builtin dict (what
\* read_state_from_file returns) has none under Python 3; a mapping class that
\* still provides it has.
StateKinds == {"dict", "iterkeys"}
HasIterkeys(kind) == kind = "iterkeys"

\* A parameters list that restores the faders before the other keys.
SetStateParametersFadersFirst(state) ==
    LET fader_keys == Sorted({k \in DOMAIN state : IsFader(k)})
        others == Sorted({k \in DOMAIN state : ~IsFader(k)})
    IN  [n \in 1..Len(fader_keys) |-> <<fader_keys[n], Fl(0)>>]
        \o [n \in 1..Len(fader_keys) |-> <<fader_keys[n], state[fader_keys[n]]>>]
        \o [n \in 1..Len(others) |-> <<others[n], state[others[n]]>>]

\* parameters, as lines 207-210 build it (when state.iterkeys() exists)
SetStateParameters(state) ==
    LET fader_keys == Sorted({k \in DOMAIN state : IsFader(k)})
        keys == Sorted(DOMAIN state)
        isFaderKey(k) == \E n \in 1..Len(fader_keys) : fader_keys[n] = k
        others == SelectSeq(keys, LAMBDA k : ~isFaderKey(k))
    IN  [n \in 1..Len(fader_keys) |-> <<fader_keys[n], Fl(0)>>]
        \o [n \in 1..Len(others) |-> <<others[n], state[others[n]]>>]
        \o [n \in 1..Len(fader_keys) |-> <<fader_keys[n], state[fader_keys[n]]>>]

\* ------------------------------------------------------------------ set_value
\* Lines 180-186 evaluated as Python evaluates them, for the list value that was
\* sent and the scalar read_back_value = get_value(path)[0]:
\* "break", "mismatch", or the exception raised.
NanCheck(value, read_back_value) ==
    IF Len(value) # 1 THEN "pass"
    ELSE IF ~HasLen(read_back_value) THEN "TypeError"      \* len(float), len(int)
    ELSE IF Len(read_back_value.s) # 1 THEN "pass"
    ELSE IF value[1].t # "nan" THEN "pass"      \* type(..) is float and isnan(value[0])
    ELSE IF read_back_value.t = "str" THEN "TypeError"     \* math.isnan("a")
    ELSE "pass"                                            \* math.isnan(int) is False

\* A comparison that accepts whatever was read back.
RoundCheckAlways(value, read_back_value) == "break"

RoundCheck(value, read_back_value) ==
    IF Len(value) = 0 THEN "pass"
    ELSE IF ~IsFloat(value[1]) THEN "pass"
    ELSE IF ~HasLen(read_back_value) THEN "TypeError"      \* 0.75[0], 1[0]
    ELSE IF Len(read_back_value.s) = 0 THEN "IndexError"
    ELSE IF read_back_value.t = "str" THEN "TypeError"     \* round("a", 6)
    ELSE IF value[1].t = "nan" THEN "pass"                 \* int == nan is False
    ELSE IF read_back_value.s[1] * 10000000 = Round6(value[1].v) THEN "break"
    ELSE "pass"

\* read_back_value == value: a scalar never equals a list
EqCheck(value, read_back_value) == "pass"

ReadbackCheck(value, read_back_value) ==
    IF NanCheck(value, read_back_value) # "pass" THEN NanCheck(value, read_back_value)
    ELSE IF RoundCheck(value, read_back_value) # "pass" THEN RoundCheck(value, read_back_value)
    ELSE IF EqCheck(value, read_back_value) # "pass" THEN EqCheck(value, read_back_value)
    ELSE "mismatch"

\* ------------------------------------------------------------------ the state
VARIABLES
    reliable,      \* the peer answers every request and the transport loses nothing
    dev,           \* the device: the data it holds for each path
    net,           \* datagrams on their way from the device to the client
    queue,         \* self._input_queue
    peerWrites,    \* the writes that reached the device during the current set_state;
                   \* of those of a set_value call, the first one
    sent,          \* the datagrams the current call has sent (counted up to MaxSent)
    op,            \* the call the application made: "none", "get", "set", "setstate"
    pc,            \* where the calling thread is
    err,           \* the exception the call raised, or "none"
    gvPath,        \* get_value: path
    gvSafe,        \* get_value: safe_get
    gvElapsed,     \* get_value: time.time() - start_time
    mess,          \* get_value: the message last taken from the queue
    gvRet,         \* get_value: the data it returned
    staleLeft,     \* messages at the head of the queue that were there when get_value began
    messStale,     \* whether mess was in the queue when get_value began
    gvBacklog,     \* how many messages with the same and with another address were in the
                   \* queue when the application's get_value began
    gvDiscarded,   \* whether the wait loop of the application's get_value dropped a message
    svPath,        \* set_value: path
    svValue,       \* set_value: value
    svReadback,    \* set_value: readback
    svElapsed,     \* set_value: time.time() - start_time
    rb,            \* set_value: read_back_value
    ssState,       \* set_state: state
    ssParams,      \* set_state: parameters
    ssIdx,         \* set_state: how many of the parameters the loop has taken
    gsState,       \* get_state: state, the snapshot
    gsIdx          \* get_state: how many of the registry's paths the loop has taken

VARIABLES
    peers,          \* the <<host suffix, port>> pairs where a mixer answers
    mainPc,         \* where the constructing thread is (__init__, __search_mixer__)
    pass,           \* which turn of the while loop of __search_mixer__ is running
    j,              \* __search_mixer__: j
    i,              \* __search_mixer__: i
    found_addr,     \* self._found_addr
    found_port,     \* self._found_port; 0 while the attribute does not exist
    pinging,        \* the addresses <<i, j>> whose probe thread waits for its ping's answer
    released,       \* per address, the probe threads between line 104 and line 105
    halfway,        \* per address, the probe threads between line 105 and line 106
    reached,        \* the addresses whose probe's ping was answered
    x32_address,    \* __init__: the host suffix of x32_address; 0 before line 72
    behringer_port  \* __init__: behringer_port

VARIABLES
    serialized,     \* whether the application lets only one thread at a time call the client
    otherPc,        \* where a second thread that calls get_value on the same client is
    otherPath,      \* the second thread's get_value: path
    otherElapsed,   \* the second thread's get_value: time.time() - start_time
    stolen          \* whose reply a call of the other thread took from the queue while the
                    \* request it answers was still waiting: "none", "first", "other"

twoVars == <<serialized, otherPc, otherPath, otherElapsed, stolen>>

discVars == <<peers, mainPc, pass, j, i, found_addr, found_port, pinging, released,
              halfway, reached, x32_address, behringer_port>>

envVars == <<reliable, dev, net, queue, peerWrites, sent>>
gvVars == <<gvPath, gvSafe, gvElapsed, mess, gvRet, staleLeft, messStale, gvBacklog,
            gvDiscarded>>
svVars == <<svPath, svValue, svReadback, svElapsed, rb>>
ssVars == <<ssState, ssParams, ssIdx>>
gsVars == <<gsState, gsIdx>>
clientVars == <<envVars, op, pc, err, gvVars, svVars, ssVars, gsVars>>

NoMsg == [address |-> "", data |-> <<>>, kind |-> "none"]
NoneVal == [t |-> "none", v |-> 0, s |-> <<>>]
NoBacklog == [same |-> 0, other |-> 0]

\* What the device holds when the client is constructed: a mixer holding numbers,
\* or a peer that answers fader reads with a blob and /ch/01/mix/on reads with no
\* argument.
DevInits ==
    { [p \in Paths |-> IF IsFader(p) THEN <<Fl(7500000)>> ELSE <<In(1)>>],
      [p \in Paths |-> IF IsFader(p) THEN <<Bl(<<0>>)>> ELSE <<>>] }

\* The values the application writes with set_value.
WriteInputs ==
    { <<FaderPath, <<Fl(7500000)>>>>, <<FaderPath, <<Fl(0)>>>>, <<FaderPath, <<NaN>>>>,
      <<OnPath, <<In(1)>>>> }

InitClient ==
    /\ reliable \in BOOLEAN
    /\ dev \in DevInits
    /\ net = {}
    /\ queue = <<>>
    /\ peerWrites = <<>>
    /\ sent = 0
    /\ op = "none"
    /\ pc = "idle"
    /\ err = "none"
    /\ gvPath = FaderPath
    /\ gvSafe = TRUE
    /\ gvElapsed = 0
    /\ mess = NoMsg
    /\ gvRet = <<>>
    /\ staleLeft = 0
    /\ messStale = FALSE
    /\ gvBacklog = NoBacklog
    /\ gvDiscarded = FALSE
    /\ svPath = FaderPath
    /\ svValue = <<>>
    /\ svReadback = FALSE
    /\ svElapsed = 0
    /\ rb = NoneVal
    /\ ssState = <<>>
    /\ ssParams = <<>>
    /\ ssIdx = 0
    /\ gsState = <<>>
    /\ gsIdx = 0

\* ------------------------------------------------------------------ time
\* An elapsed time after d more ticks; it saturates one tick above the timeout.
Later(e, d) == IF e + d > Timeout THEN Timeout + 1 ELSE e + d
\* set_value's clock runs while a set_value is in progress.
SvLater(d) == IF op \in {"set", "setstate"} THEN Later(svElapsed, d) ELSE svElapsed

\* ------------------------------------------------------------- the transport
\* A message that was a reply to a request of the current get_value is, once
\* the next get_value begins, a reply to an earlier request.
Aged(m) == IF m.kind = "cur" THEN [m EXCEPT !.kind = "old"] ELSE m

\* One more datagram sent by the current call.
Counted(n) == IF n < MaxSent THEN n + 1 ELSE n

\* self._client.send(OSC.OSCMessage(path)): a read request.  A reliable peer's
\* reply is in the queue before the client waits; otherwise the request or the
\* reply may be lost, or the reply is on its way.
SendRead(p) ==
    LET reply == [address |-> p, data |-> dev[p], kind |-> "cur"]
    IN  /\ dev' = dev
        /\ peerWrites' = peerWrites
        /\ sent' = Counted(sent)
        /\ IF p \notin Paths
           THEN queue' = queue /\ net' = net       \* the device does not answer
           ELSE IF reliable
           THEN queue' = Append(queue, reply) /\ net' = net
           ELSE /\ queue' = queue
                /\ \/ net' = net
                   \/ /\ Cardinality(net) < MaxNet
                      /\ net' = net \cup {reply}

\* What the device holds after a write of value: the value, or for a single
\* positive float a value the device quantized (equal after rounding to 6 decimals).
StoredAs(value) ==
    {value} \cup
    (IF Len(value) = 1 /\ value[1].t = "float" /\ value[1].v > 0
     THEN {<<Fl(value[1].v + 4)>>} ELSE {})

\* self._client.send(OSC.OSCMessage(path, value)): a write.  The device sends no reply.
SendWrite(p, value) ==
    /\ sent' = Counted(sent)
    /\ \/ /\ p \in Paths
          /\ \E stored \in StoredAs(value) : dev' = [dev EXCEPT ![p] = stored]
          /\ peerWrites' = IF op = "setstate" \/ peerWrites = <<>>
                           THEN Append(peerWrites, <<p, value>>) ELSE peerWrites
       \/ /\ ~reliable \/ p \notin Paths          \* lost, or ignored by the device
          /\ dev' = dev
          /\ peerWrites' = peerWrites

\* ------------------------------------------------------------------ get_value
\* Entering get_value(path, safe_get).
BeginGetValue(p, safe, app) ==
    /\ gvPath' = p
    /\ gvSafe' = safe
    /\ gvElapsed' = 0
    /\ mess' = NoMsg
    /\ gvRet' = <<>>
    /\ staleLeft' = Len(queue)
    /\ messStale' = FALSE
    /\ gvBacklog' = IF app
                    THEN [same |-> Len(SelectSeq(queue, LAMBDA m : m.address = p)),
                          other |-> Len(SelectSeq(queue, LAMBDA m : m.address # p))]
                    ELSE NoBacklog
    /\ gvDiscarded' = FALSE
    /\ queue' = [n \in 1..Len(queue) |-> Aged(queue[n])]
    /\ net' = {Aged(m) : m \in net}
    /\ pc' = "gv_purge"

\* Where get_value returns to: the application, line 198 of get_state, or
\* line 178 of set_value.
AfterGetValue ==
    IF op = "get" THEN "done" ELSE IF op = "getstate" THEN "gs_store" ELSE "sv_check"

\* A get_value that takes the next message whatever its address.
AddressMatchesAny(m, p) == TRUE

\* mess.address == path
AddressMatches(m, p) == m.address = p

\* A purge that calls get_nowait() once instead of looping.
PurgeOne(q) == IF Len(q) > 0 THEN 1 ELSE 0

\* How many messages the loop of lines 128-132 takes from a queue q: it calls
\* get_nowait() until that raises queue.Empty.
PurgeCount(q) == Len(q)

\* A get_value that takes the address-matched branch whatever safe_get is.
AfterPurgeAlwaysMatched(safe) == "gv_send"

\* if not safe_get (line 133): the plain branch or the address-matched branch
AfterPurge(safe) == IF safe THEN "gv_send" ELSE "gv_plain_send"

\* Lines 128-132: the purge loop.
GvPurge ==
    /\ pc = "gv_purge"
    /\ queue' = SubSeq(queue, PurgeCount(queue) + 1, Len(queue))
    /\ staleLeft' = IF staleLeft > PurgeCount(queue) THEN staleLeft - PurgeCount(queue) ELSE 0
    /\ pc' = AfterPurge(gvSafe)
    /\ UNCHANGED <<reliable, dev, net, peerWrites, sent, op, err, gvPath, gvSafe,
                   gvElapsed, mess, gvRet, messStale, gvBacklog, gvDiscarded, svVars, ssVars, gsVars>>

\* Line 134.
GvPlainSend ==
    /\ pc = "gv_plain_send"
    /\ SendRead(gvPath)
    /\ pc' = "gv_plain_wait"
    /\ UNCHANGED <<reliable, op, err, gvVars, svVars, ssVars, gsVars>>

\* Line 135: the next message whatever its address, or queue.Empty.
GvPlainWait ==
    /\ pc = "gv_plain_wait"
    /\ \/ /\ queue # <<>>
          /\ mess' = Head(queue)
          /\ messStale' = (staleLeft > 0)
          /\ queue' = Tail(queue)
          /\ staleLeft' = IF staleLeft > 0 THEN staleLeft - 1 ELSE 0
          /\ gvRet' = Head(queue).data
          /\ pc' = AfterGetValue
          /\ err' = err
       \/ /\ queue = <<>>
          /\ err' = "Empty"
          /\ pc' = "raised"
          /\ UNCHANGED <<queue, mess, messStale, gvRet, staleLeft>>
    /\ UNCHANGED <<reliable, dev, net, peerWrites, sent, op, gvPath, gvSafe,
                   gvElapsed, gvBacklog, gvDiscarded, svVars, ssVars, gsVars>>

\* Line 140.
GvSend ==
    /\ pc = "gv_send"
    /\ SendRead(gvPath)
    /\ pc' = "gv_wait"
    /\ UNCHANGED <<reliable, op, err, gvVars, svVars, ssVars, gsVars>>

\* A timeout test that already fires when the elapsed time equals the timeout.
GvTimedOutEarly(elapsed) == elapsed >= Timeout

\* time.time() - start_time > self._timeout, line 145
GvTimedOut(elapsed) == elapsed > Timeout

\* Lines 141-148: the wait returns a message after d ticks, or raises
\* queue.Empty after the timeout, which line 147 answers with "continue".
GvWait ==
    /\ pc = "gv_wait"
    /\ \/ /\ queue # <<>>
          /\ \E d \in 0..1 :
               LET m == Head(queue)
                   now == Later(gvElapsed, d)
               IN  /\ mess' = m
                   /\ messStale' = (staleLeft > 0)
                   /\ queue' = Tail(queue)
                   /\ staleLeft' = IF staleLeft > 0 THEN staleLeft - 1 ELSE 0
                   /\ IF AddressMatches(m, gvPath)
                      THEN /\ gvRet' = m.data
                           /\ pc' = AfterGetValue
                           /\ err' = err
                           /\ gvElapsed' = now
                           /\ svElapsed' = SvLater(d)
                           /\ gvDiscarded' = gvDiscarded
                      ELSE IF GvTimedOut(now)
                      THEN /\ err' = "TimeoutError"
                           /\ pc' = "raised"
                           /\ gvElapsed' = now
                           /\ svElapsed' = SvLater(d)
                           /\ gvDiscarded' = (op = "get")
                           /\ gvRet' = gvRet
                      ELSE /\ pc' = "gv_send"          \* time.sleep(0.001)
                           /\ gvElapsed' = Later(now, 1)
                           /\ svElapsed' = SvLater(d + 1)
                           /\ gvDiscarded' = (op = "get")
                           /\ UNCHANGED <<err, gvRet>>
       \/ /\ queue = <<>>
          /\ gvElapsed' = Later(gvElapsed, Timeout)
          /\ svElapsed' = SvLater(Timeout)
          /\ pc' = "gv_send"
          /\ UNCHANGED <<queue, mess, messStale, gvRet, staleLeft, err, gvDiscarded>>
    /\ UNCHANGED <<reliable, dev, net, peerWrites, sent, op, gvPath, gvSafe,
                   gvBacklog, svPath, svValue, svReadback, rb, ssVars, gsVars>>

\* ------------------------------------------------------------------ set_value
\* Where set_value returns to: the application, or the loop of set_state.
AfterSetValue == IF op = "set" THEN "done" ELSE "ss_loop"

\* Lines 174-178: the write is sent; with readback the clock starts and
\* get_value(path) is entered.
SvSend ==
    /\ pc = "sv_send"
    /\ SendWrite(svPath, svValue)
    /\ IF svReadback
       THEN /\ BeginGetValue(svPath, TRUE, FALSE)
            /\ svElapsed' = 0
       ELSE /\ pc' = AfterSetValue
            /\ UNCHANGED <<net, queue, gvVars, svElapsed>>
    /\ UNCHANGED <<reliable, op, err, svPath, svValue, svReadback, rb, ssVars, gsVars>>

\* time.time() - start_time > self._timeout, line 187
SvTimedOut(elapsed) == elapsed > Timeout

\* Lines 178-188: read_back_value = get_value(path)[0] and the comparison.
SvCheck ==
    /\ pc = "sv_check"
    /\ IF gvRet = <<>>
       THEN /\ err' = "IndexError"                       \* [][0]
            /\ pc' = "raised"
            /\ rb' = rb
       ELSE /\ rb' = gvRet[1]
            /\ LET outcome == ReadbackCheck(svValue, gvRet[1])
               IN  IF outcome = "break"
                   THEN /\ pc' = AfterSetValue
                        /\ err' = err
                   ELSE IF outcome # "mismatch"
                   THEN /\ err' = outcome
                        /\ pc' = "raised"
                   ELSE IF SvTimedOut(svElapsed)
                   THEN /\ err' = "TimeoutError"
                        /\ pc' = "raised"
                   ELSE /\ pc' = "sv_resend"
                        /\ err' = err
    /\ UNCHANGED <<envVars, op, gvVars, svPath, svValue, svReadback, svElapsed,
                   ssVars, gsVars>>

\* Lines 189-190 and 178: time.sleep(0.001), the write is sent again, and
\* get_value(path) is entered again.
SvResend ==
    /\ pc = "sv_resend"
    /\ SendWrite(svPath, svValue)
    /\ BeginGetValue(svPath, TRUE, FALSE)
    /\ svElapsed' = Later(svElapsed, 1)
    /\ UNCHANGED <<reliable, op, err, svPath, svValue, svReadback, rb, ssVars, gsVars>>

\* ------------------------------------------------------------------ set_state
\* Lines 212-217: the next parameter is written with readback, or the loop ends.
SsLoop ==
    /\ pc = "ss_loop"
    /\ IF ssIdx = Len(ssParams)
       THEN /\ pc' = "done"
            /\ UNCHANGED <<svVars, ssIdx>>
       ELSE /\ ssIdx' = ssIdx + 1
            /\ svPath' = ssParams[ssIdx + 1][1]
            /\ svValue' = <<ssParams[ssIdx + 1][2]>>
            /\ svReadback' = TRUE
            /\ pc' = "sv_send"
            /\ UNCHANGED <<svElapsed, rb>>
    /\ UNCHANGED <<envVars, op, err, gvVars, ssState, ssParams, gsVars>>

\* ------------------------------------------------------------------ get_state
\* The next path of the registry after the first n, as enumerate(setting_paths)
\* yields it.
NextSettingReversed(n) == setting_paths[Len(setting_paths) - n]

NextSetting(n) == setting_paths[n + 1]

\* Lines 194-197 and 200: the next path is read with an address-matched
\* get_value, or the loop ends and the snapshot is returned.
GsLoop ==
    /\ pc = "gs_loop"
    /\ IF gsIdx = Len(setting_paths)
       THEN /\ pc' = "done"
            /\ UNCHANGED <<net, queue, gvVars, gsIdx>>
       ELSE /\ gsIdx' = gsIdx + 1
            /\ BeginGetValue(NextSetting(gsIdx), TRUE, FALSE)
    /\ UNCHANGED <<reliable, dev, peerWrites, sent, op, err, svVars, ssVars, gsState>>

\* Lines 198-199: assert len(value) == 1, and state[path] = value[0].
GsStore ==
    /\ pc = "gs_store"
    /\ IF Len(gvRet) # 1
       THEN /\ err' = "AssertionError"
            /\ pc' = "raised"
            /\ gsState' = gsState
       ELSE /\ gsState' = [k \in DOMAIN gsState \cup {gvPath} |->
                                IF k = gvPath THEN gvRet[1] ELSE gsState[k]]
            /\ pc' = "gs_loop"
            /\ err' = err
    /\ UNCHANGED <<envVars, op, gvVars, svVars, ssVars, gsIdx>>

\* ------------------------------------------------------------- the application
\* The application calls the client from one thread, one call after the other.
CanCall == pc \in {"idle", "done", "raised"}

\* The locals of a function that is not running hold nothing.
ResetGetValue ==
    /\ gvPath' = FaderPath
    /\ gvSafe' = TRUE
    /\ gvElapsed' = 0
    /\ mess' = NoMsg
    /\ gvRet' = <<>>
    /\ staleLeft' = 0
    /\ messStale' = FALSE
    /\ gvBacklog' = NoBacklog
    /\ gvDiscarded' = FALSE

ResetSetValue ==
    /\ svPath' = FaderPath
    /\ svValue' = <<>>
    /\ svReadback' = FALSE
    /\ svElapsed' = 0
    /\ rb' = NoneVal

ResetSetState ==
    /\ ssState' = <<>>
    /\ ssParams' = <<>>
    /\ ssIdx' = 0

ResetGetState ==
    /\ gsState' = <<>>
    /\ gsIdx' = 0

NewCall(o, e) ==
    /\ op' = o
    /\ err' = e
    /\ peerWrites' = <<>>
    /\ sent' = 0
    /\ UNCHANGED <<reliable, dev>>

CallGetValue ==
    /\ CanCall
    /\ \E p \in Paths, safe \in BOOLEAN : BeginGetValue(p, safe, TRUE)
    /\ NewCall("get", "none")
    /\ ResetSetValue
    /\ ResetSetState
    /\ ResetGetState

CallSetValue ==
    /\ CanCall
    /\ \E w \in WriteInputs, readback \in BOOLEAN :
         /\ svPath' = w[1]
         /\ svValue' = w[2]
         /\ svReadback' = readback
    /\ svElapsed' = 0
    /\ rb' = NoneVal
    /\ pc' = "sv_send"
    /\ NewCall("set", "none")
    /\ ResetGetValue
    /\ ResetSetState
    /\ ResetGetState
    /\ UNCHANGED <<net, queue>>

\* get_value called with a path that the registry does not hold.
CallGetUnregistered ==
    /\ CanCall
    /\ \E safe \in BOOLEAN : BeginGetValue(UnknownPath, safe, TRUE)
    /\ NewCall("get", "none")
    /\ ResetSetValue
    /\ ResetSetState
    /\ ResetGetState

\* set_value called with a path that the registry does not hold.
CallSetUnregistered ==
    /\ CanCall
    /\ \E readback \in BOOLEAN :
         /\ svPath' = UnknownPath
         /\ svValue' = <<Fl(7500000)>>
         /\ svReadback' = readback
    /\ svElapsed' = 0
    /\ rb' = NoneVal
    /\ pc' = "sv_send"
    /\ NewCall("set", "none")
    /\ ResetGetValue
    /\ ResetSetState
    /\ ResetGetState
    /\ UNCHANGED <<net, queue>>

\* Line 193: get_state begins with an empty snapshot.
CallGetState ==
    /\ CanCall
    /\ gsState' = <<>>
    /\ gsIdx' = 0
    /\ pc' = "gs_loop"
    /\ NewCall("getstate", "none")
    /\ ResetGetValue
    /\ ResetSetValue
    /\ ResetSetState
    /\ UNCHANGED <<net, queue>>

\* Lines 207-210.  sorted(state.iterkeys()) is evaluated when line 209 builds
\* its generator: a state without iterkeys raises AttributeError there, before
\* anything is written.
CallSetState ==
    /\ CanCall
    /\ \E state \in StateInputs, kind \in StateKinds :
         /\ ssState' = state
         /\ IF HasIterkeys(kind)
            THEN /\ ssParams' = SetStateParameters(state)
                 /\ ssIdx' = 0
                 /\ pc' = "ss_loop"
                 /\ NewCall("setstate", "none")
            ELSE /\ ssParams' = <<>>
                 /\ ssIdx' = 0
                 /\ pc' = "raised"
                 /\ NewCall("setstate", "AttributeError")
    /\ ResetGetValue
    /\ ResetSetValue
    /\ ResetGetState
    /\ UNCHANGED <<net, queue>>

\* ------------------------------------------------------------ the environment
\* The dispatcher thread puts a datagram that arrived into the queue (lines 45-50).
Deliver ==
    /\ ~reliable
    /\ Len(queue) < MaxQueue
    /\ \E m \in net :
         /\ queue' = Append(queue, m)
         /\ net' = net \ {m}
    /\ UNCHANGED <<reliable, dev, peerWrites, sent, op, pc, err, gvVars, svVars, ssVars, gsVars>>

\* The transport delivers a datagram and keeps a copy of it that it may deliver again.
Duplicate ==
    /\ ~reliable
    /\ Len(queue) < MaxQueue
    /\ \E m \in net :
         /\ queue' = Append(queue, m)
         /\ net' = net
    /\ UNCHANGED <<reliable, dev, peerWrites, sent, op, pc, err, gvVars, svVars, ssVars, gsVars>>

\* The transport loses a datagram.
Drop ==
    /\ ~reliable
    /\ \E m \in net : net' = net \ {m}
    /\ UNCHANGED <<reliable, dev, queue, peerWrites, sent, op, pc, err, gvVars, svVars,
                   ssVars, gsVars>>

\* The device sends a message nobody asked for (a notification of a value it holds).
Notify ==
    /\ ~reliable
    /\ Cardinality(net) < MaxNet
    /\ \E p \in Paths : net' = net \cup {[address |-> p, data |-> dev[p], kind |-> "push"]}
    /\ UNCHANGED <<reliable, dev, queue, peerWrites, sent, op, pc, err, gvVars, svVars,
                   ssVars, gsVars>>

\* ------------------------------------------------------------------ discovery
XAirPort == 10024       \* range(10024, 10022, -1) starts with the XAIR port
X32Port == 10023        \* and ends with the X32 port
FirstHost == 2          \* range(2, 255)
LastHost == 3           \* 254 in the code
MaxPass == 2            \* turns of the while loop the model follows

Ports == {XAirPort, X32Port}
Hosts == FirstHost..LastHost
Addrs == Hosts \X Ports

\* No mixer, one mixer or two mixers answer on the subnet.
InitDisc ==
    /\ peers \in {P \in SUBSET Addrs : Cardinality(P) <= 2}
    /\ mainPc = "while"
    /\ pass = 1
    /\ j = XAirPort
    /\ i = FirstHost
    /\ found_addr = -1
    /\ found_port = 0
    /\ pinging = {}
    /\ released = [a \in Addrs |-> 0]
    /\ halfway = [a \in Addrs |-> 0]
    /\ reached = {}
    /\ x32_address = 0
    /\ behringer_port = X32Port

\* A test of the slot that is off by one.
SlotUnsetOffByOne == found_addr < -1

\* while self._found_addr < 0 (line 89), and the tests of lines 91, 94 and 96
SlotUnset == found_addr < 0

\* Line 89.  The model follows MaxPass turns of the loop.
SearchWhile ==
    /\ mainPc = "while"
    /\ IF SlotUnset
       THEN /\ pass <= MaxPass
            /\ j' = XAirPort
            /\ mainPc' = "batch"
       ELSE /\ mainPc' = "returned"
            /\ j' = j
    /\ UNCHANGED <<peers, pass, i, found_addr, found_port, pinging, released, halfway,
                   reached, x32_address, behringer_port>>

\* Line 91, before the threads of port j are started.
SearchBatch ==
    /\ mainPc = "batch"
    /\ IF SlotUnset
       THEN /\ i' = FirstHost
            /\ mainPc' = "spawn"
       ELSE /\ i' = i
            /\ mainPc' = "after"
    /\ UNCHANGED <<peers, pass, j, found_addr, found_port, pinging, released, halfway,
                   reached, x32_address, behringer_port>>

\* Line 93: the thread of __try_to_ping_mixer__ for host i and port j is
\* started; it builds its client (line 101) and sends its ping (line 103).
SearchSpawn ==
    /\ mainPc = "spawn"
    /\ pinging' = pinging \cup {<<i, j>>}
    /\ mainPc' = "check"
    /\ UNCHANGED <<peers, pass, j, i, found_addr, found_port, released, halfway, reached,
                   x32_address, behringer_port>>

\* Lines 94-95 and the end of the for loop of line 92.
SearchCheck ==
    /\ mainPc = "check"
    /\ IF ~SlotUnset \/ i = LastHost
       THEN /\ mainPc' = "after"
            /\ i' = i
       ELSE /\ mainPc' = "spawn"
            /\ i' = i + 1
    /\ UNCHANGED <<peers, pass, j, found_addr, found_port, pinging, released, halfway,
                   reached, x32_address, behringer_port>>

\* A for loop over range(10024, 10023, -1), which leaves out port 10023.
AfterPortOnlyXAir ==
    /\ j' = j
    /\ mainPc' = "while"
    /\ pass' = pass + 1

\* Where the for loop of line 90 goes after port j: the next port, or back to line 89.
AfterPort ==
    IF j = XAirPort
    THEN /\ j' = X32Port
         /\ mainPc' = "batch"
         /\ pass' = pass
    ELSE /\ j' = j
         /\ mainPc' = "while"
         /\ pass' = pass + 1

\* Line 96.
SearchAfter ==
    /\ mainPc = "after"
    /\ IF SlotUnset
       THEN /\ mainPc' = "sleep"
            /\ UNCHANGED <<j, pass>>
       ELSE AfterPort
    /\ UNCHANGED <<peers, i, found_addr, found_port, pinging, released, halfway, reached,
                   x32_address, behringer_port>>

\* Line 97: time.sleep(2), which outlasts the one second that every probe
\* started before it waits for its answer.
SearchSleep ==
    /\ mainPc = "sleep"
    /\ pinging = {}
    /\ AfterPort
    /\ UNCHANGED <<peers, i, found_addr, found_port, pinging, released, halfway, reached,
                   x32_address, behringer_port>>

\* Line 97 when a probe thread started before the sleep runs late (nothing
\* joins the threads): time.sleep(2) returns while that probe still holds its
\* socket and waits for its answer.
SearchSleepShort ==
    /\ mainPc = "sleep"
    /\ pinging # {}
    /\ AfterPort
    /\ UNCHANGED <<peers, i, found_addr, found_port, pinging, released, halfway, reached,
                   x32_address, behringer_port>>

\* server_port of the main client (the default of --port, line 255)
ServerPort == 10300

\* The local port of the probe for address a = <<i, j>>: __search_mixer__ passes
\* local_port + 1 as start_port (line 93), the probe binds start_port + i + j
\* (line 101).
ProbePort(a) == ServerPort + 1 + a[1] + a[2]

\* Line 72, after __search_mixer__ returned.
InitReadAddr ==
    /\ mainPc = "returned"
    /\ x32_address' = found_addr
    /\ mainPc' = "read_port"
    /\ UNCHANGED <<peers, pass, j, i, found_addr, found_port, pinging, released, halfway,
                   reached, behringer_port>>

\* Line 73: AttributeError when no probe has assigned self._found_port yet.
InitReadPort ==
    /\ mainPc = "read_port"
    /\ IF found_port = 0
       THEN /\ mainPc' = "AttributeError"
            /\ behringer_port' = behringer_port
       ELSE /\ mainPc' = "connect"
            /\ behringer_port' = found_port
    /\ UNCHANGED <<peers, pass, j, i, found_addr, found_port, pinging, released, halfway,
                   reached, x32_address>>

\* Whether the ping of a probe to address a is answered within its timeout.
Answers(a) == a \in peers

\* Lines 103-104: ping() returned and the probe's client is deleted.
ProbePingOk ==
    /\ \E a \in pinging :
         /\ Answers(a)
         /\ pinging' = pinging \ {a}
         /\ released' = [released EXCEPT ![a] = @ + 1]
         /\ reached' = reached \cup {a}
    /\ UNCHANGED <<peers, mainPc, pass, j, i, found_addr, found_port, halfway,
                   x32_address, behringer_port>>

\* Lines 107-108: ping() raised queue.Empty, the probe's client is deleted and
\* the thread ends.
ProbePingFail ==
    /\ \E a \in pinging :
         /\ ~Answers(a)
         /\ pinging' = pinging \ {a}
    /\ UNCHANGED <<peers, mainPc, pass, j, i, found_addr, found_port, released, halfway,
                   reached, x32_address, behringer_port>>

\* What line 105 stores in self._found_addr, given the slot and the probe's i.
ClaimAddr(slot, host) == host

\* Line 105: self._found_addr = i.
ProbeWriteAddr ==
    /\ \E a \in Addrs :
         /\ released[a] > 0
         /\ found_addr' = ClaimAddr(found_addr, a[1])
         /\ released' = [released EXCEPT ![a] = @ - 1]
         /\ halfway' = [halfway EXCEPT ![a] = @ + 1]
    /\ UNCHANGED <<peers, mainPc, pass, j, i, found_port, pinging, reached, x32_address,
                   behringer_port>>

\* Line 106: self._found_port = j, and the thread ends.
ProbeWritePort ==
    /\ \E a \in Addrs :
         /\ halfway[a] > 0
         /\ found_port' = a[2]
         /\ halfway' = [halfway EXCEPT ![a] = @ - 1]
    /\ UNCHANGED <<peers, mainPc, pass, j, i, found_addr, pinging, released, reached,
                   x32_address, behringer_port>>

\* The discovery variables before a client is asked to search.
IdleDisc ==
    /\ peers = {}
    /\ mainPc = "connect"
    /\ pass = 1
    /\ j = XAirPort
    /\ i = FirstHost
    /\ found_addr = -1
    /\ found_port = 0
    /\ pinging = {}
    /\ released = [a \in Addrs |-> 0]
    /\ halfway = [a \in Addrs |-> 0]
    /\ reached = {}
    /\ x32_address = 0
    /\ behringer_port = X32Port

\* The client variables while the constructor is still searching.
IdleClient ==
    /\ reliable = TRUE
    /\ dev = [p \in Paths |-> IF IsFader(p) THEN <<Fl(7500000)>> ELSE <<In(1)>>]
    /\ net = {}
    /\ queue = <<>>
    /\ peerWrites = <<>>
    /\ sent = 0
    /\ op = "none"
    /\ pc = "idle"
    /\ err = "none"
    /\ gvPath = FaderPath
    /\ gvSafe = TRUE
    /\ gvElapsed = 0
    /\ mess = NoMsg
    /\ gvRet = <<>>
    /\ staleLeft = 0
    /\ messStale = FALSE
    /\ gvBacklog = NoBacklog
    /\ gvDiscarded = FALSE
    /\ svPath = FaderPath
    /\ svValue = <<>>
    /\ svReadback = FALSE
    /\ svElapsed = 0
    /\ rb = NoneVal
    /\ ssState = <<>>
    /\ ssParams = <<>>
    /\ ssIdx = 0
    /\ gsState = <<>>
    /\ gsIdx = 0

\* ---------------------------------------------------------- a second caller
\* A second thread of the application calls get_value(path) on the same client.
\* It runs the code of lines 127-148 on the same input queue; replies to its
\* requests have the kind "other".
IdleTwo ==
    /\ serialized = TRUE
    /\ otherPc = "idle"
    /\ otherPath = FaderPath
    /\ otherElapsed = 0
    /\ stolen = "none"

\* The pcs of a get_value that has begun and not returned.
InCall == {"gv_purge", "gv_plain_send", "gv_plain_wait", "gv_send", "gv_wait"}

\* An application without any lock around its calls.
MayCallAnytime(otherThreadPc) == TRUE

\* get_value takes no lock: whether a thread may begin a call while the other
\* thread is inside one is up to the application.
MayCall(otherThreadPc) == serialized => otherThreadPc \notin InCall

\* What stolen holds after a thread took the messages taken from the queue,
\* when replies of kind victimKind answer the other thread's call and victimPc
\* is where that thread is.
Taking(taken, victimKind, victimPc, victim) ==
    IF victimPc \in InCall /\ \E n \in 1..Len(taken) : taken[n].kind = victimKind
    THEN victim ELSE stolen

\* A message that was a reply to a request of the second thread's call is, once
\* its next call begins, a reply to an earlier request.
OtherAged(m) == IF m.kind = "other" THEN [m EXCEPT !.kind = "old"] ELSE m

\* The second thread enters get_value(path).
OtherCall ==
    /\ otherPc \in {"idle", "done", "raised"}
    /\ MayCall(pc)
    /\ \E p \in Paths : otherPath' = p
    /\ otherElapsed' = 0
    /\ otherPc' = "gv_purge"
    /\ stolen' = "none"
    /\ queue' = [n \in 1..Len(queue) |-> OtherAged(queue[n])]
    /\ net' = {OtherAged(m) : m \in net}
    /\ UNCHANGED <<reliable, dev, peerWrites, sent, op, pc, err, gvVars, svVars, ssVars,
                   gsVars, serialized>>

\* Lines 128-132 in the second thread.
OtherPurge ==
    /\ otherPc = "gv_purge"
    /\ queue' = SubSeq(queue, PurgeCount(queue) + 1, Len(queue))
    /\ staleLeft' = IF staleLeft > PurgeCount(queue) THEN staleLeft - PurgeCount(queue) ELSE 0
    /\ stolen' = Taking(SubSeq(queue, 1, PurgeCount(queue)), "cur", pc, "first")
    /\ otherPc' = "gv_send"
    /\ UNCHANGED <<reliable, dev, net, peerWrites, sent, op, pc, err, gvPath, gvSafe,
                   gvElapsed, mess, gvRet, messStale, gvBacklog, gvDiscarded, svVars,
                   ssVars, gsVars, serialized, otherPath, otherElapsed>>

\* Line 140 in the second thread.
OtherSend ==
    /\ otherPc = "gv_send"
    /\ LET reply == [address |-> otherPath, data |-> dev[otherPath], kind |-> "other"]
       IN  IF reliable
           THEN queue' = Append(queue, reply) /\ net' = net
           ELSE /\ queue' = queue
                /\ \/ net' = net
                   \/ /\ Cardinality(net) < MaxNet
                      /\ net' = net \cup {reply}
    /\ otherPc' = "gv_wait"
    /\ UNCHANGED <<reliable, dev, peerWrites, sent, op, pc, err, gvVars, svVars, ssVars,
                   gsVars, serialized, otherPath, otherElapsed, stolen>>

\* Lines 141-148 in the second thread.
OtherWait ==
    /\ otherPc = "gv_wait"
    /\ \/ /\ queue # <<>>
          /\ \E d \in 0..1 :
               LET m == Head(queue)
                   now == Later(otherElapsed, d)
               IN  /\ queue' = Tail(queue)
                   /\ staleLeft' = IF staleLeft > 0 THEN staleLeft - 1 ELSE 0
                   /\ stolen' = Taking(<<m>>, "cur", pc, "first")
                   /\ IF AddressMatches(m, otherPath)
                      THEN otherPc' = "done" /\ otherElapsed' = now
                      ELSE IF GvTimedOut(now)
                      THEN otherPc' = "raised" /\ otherElapsed' = now
                      ELSE otherPc' = "gv_send" /\ otherElapsed' = Later(now, 1)
       \/ /\ queue = <<>>
          /\ otherElapsed' = Later(otherElapsed, Timeout)
          /\ otherPc' = "gv_send"
          /\ UNCHANGED <<queue, staleLeft, stolen>>
    /\ UNCHANGED <<reliable, dev, net, peerWrites, sent, op, pc, err, gvPath, gvSafe,
                   gvElapsed, mess, gvRet, messStale, gvBacklog, gvDiscarded, svVars,
                   ssVars, gsVars, serialized, otherPath>>

\* The first thread's steps beside a second thread: what get_value takes from
\* the queue may be the reply to a request of the second thread.
FirstCall ==
    /\ MayCall(otherPc)
    /\ CallGetValue
    /\ stolen' = "none"
    /\ UNCHANGED <<serialized, otherPc, otherPath, otherElapsed>>

FirstPurge ==
    /\ GvPurge
    /\ stolen' = Taking(SubSeq(queue, 1, PurgeCount(queue)), "other", otherPc, "other")
    /\ UNCHANGED <<serialized, otherPc, otherPath, otherElapsed>>

FirstWait ==
    /\ GvWait \/ GvPlainWait
    /\ stolen' = Taking(SubSeq(queue, 1, Len(queue) - Len(queue')), "other", otherPc, "other")
    /\ UNCHANGED <<serialized, otherPc, otherPath, otherElapsed>>

\* ------------------------------------------------------------ specifications
vars == <<clientVars, discVars, twoVars>>

\* The application's get_value calls on a constructed client.
NextGet ==
    \/ (CallGetValue /\ UNCHANGED <<discVars, twoVars>>)
    \/ (GvPurge /\ UNCHANGED <<discVars, twoVars>>)
    \/ (GvPlainSend /\ UNCHANGED <<discVars, twoVars>>)
    \/ (GvPlainWait /\ UNCHANGED <<discVars, twoVars>>)
    \/ (GvSend /\ UNCHANGED <<discVars, twoVars>>)
    \/ (GvWait /\ UNCHANGED <<discVars, twoVars>>)
    \/ (Deliver /\ UNCHANGED <<discVars, twoVars>>)
    \/ (Duplicate /\ UNCHANGED <<discVars, twoVars>>)
    \/ (Drop /\ UNCHANGED <<discVars, twoVars>>)
    \/ (Notify /\ UNCHANGED <<discVars, twoVars>>)

InitGet == InitClient /\ IdleDisc /\ IdleTwo

SpecGet == InitGet /\ [][NextGet]_vars

\* The application's set_value and set_state calls on a constructed client.
NextSet ==
    \/ (CallSetValue /\ UNCHANGED <<discVars, twoVars>>)
    \/ (CallSetState /\ UNCHANGED <<discVars, twoVars>>)
    \/ (GvPurge /\ UNCHANGED <<discVars, twoVars>>)
    \/ (GvSend /\ UNCHANGED <<discVars, twoVars>>)
    \/ (GvWait /\ UNCHANGED <<discVars, twoVars>>)
    \/ (SvSend /\ UNCHANGED <<discVars, twoVars>>)
    \/ (SvCheck /\ UNCHANGED <<discVars, twoVars>>)
    \/ (SvResend /\ UNCHANGED <<discVars, twoVars>>)
    \/ (SsLoop /\ UNCHANGED <<discVars, twoVars>>)
    \/ (Deliver /\ UNCHANGED <<discVars, twoVars>>)
    \/ (Drop /\ UNCHANGED <<discVars, twoVars>>)

InitSet == InitClient /\ IdleDisc /\ IdleTwo

SpecSet == InitSet /\ [][NextSet]_vars

\* The application's calls with a path that is not in the registry.
NextUnknown ==
    \/ (CallGetUnregistered /\ UNCHANGED <<discVars, twoVars>>)
    \/ (CallSetUnregistered /\ UNCHANGED <<discVars, twoVars>>)
    \/ (GvPurge /\ UNCHANGED <<discVars, twoVars>>)
    \/ (GvPlainSend /\ UNCHANGED <<discVars, twoVars>>)
    \/ (GvPlainWait /\ UNCHANGED <<discVars, twoVars>>)
    \/ (GvSend /\ UNCHANGED <<discVars, twoVars>>)
    \/ (GvWait /\ UNCHANGED <<discVars, twoVars>>)
    \/ (SvSend /\ UNCHANGED <<discVars, twoVars>>)
    \/ (Deliver /\ UNCHANGED <<discVars, twoVars>>)
    \/ (Drop /\ UNCHANGED <<discVars, twoVars>>)
    \/ (Notify /\ UNCHANGED <<discVars, twoVars>>)

InitUnknown == InitClient /\ IdleDisc /\ IdleTwo

SpecUnknown == InitUnknown /\ [][NextUnknown]_vars

\* The application's get_state calls on a constructed client.
NextState ==
    \/ (CallGetState /\ UNCHANGED <<discVars, twoVars>>)
    \/ (GsLoop /\ UNCHANGED <<discVars, twoVars>>)
    \/ (GsStore /\ UNCHANGED <<discVars, twoVars>>)
    \/ (GvPurge /\ UNCHANGED <<discVars, twoVars>>)
    \/ (GvSend /\ UNCHANGED <<discVars, twoVars>>)
    \/ (GvWait /\ UNCHANGED <<discVars, twoVars>>)
    \/ (Deliver /\ UNCHANGED <<discVars, twoVars>>)
    \/ (Duplicate /\ UNCHANGED <<discVars, twoVars>>)
    \/ (Drop /\ UNCHANGED <<discVars, twoVars>>)
    \/ (Notify /\ UNCHANGED <<discVars, twoVars>>)

InitState == InitClient /\ IdleDisc /\ IdleTwo

SpecState == InitState /\ [][NextState]_vars

\* Two threads of the application call get_value on one client.
NextTwo ==
    \/ (FirstCall /\ UNCHANGED discVars)
    \/ (FirstPurge /\ UNCHANGED discVars)
    \/ (GvPlainSend /\ UNCHANGED <<discVars, twoVars>>)
    \/ (GvSend /\ UNCHANGED <<discVars, twoVars>>)
    \/ (FirstWait /\ UNCHANGED discVars)
    \/ (OtherCall /\ UNCHANGED discVars)
    \/ (OtherPurge /\ UNCHANGED discVars)
    \/ (OtherSend /\ UNCHANGED discVars)
    \/ (OtherWait /\ UNCHANGED discVars)

\* The peer is reliable here: every request of either thread is answered once.
InitTwo ==
    /\ InitClient /\ IdleDisc
    /\ reliable
    /\ serialized \in BOOLEAN
    /\ otherPc = "idle"
    /\ otherPath = FaderPath
    /\ otherElapsed = 0
    /\ stolen = "none"

SpecTwo == InitTwo /\ [][NextTwo]_vars

\* The constructor of a client that was given no address.
NextDisc ==
    \/ (SearchWhile /\ UNCHANGED <<clientVars, twoVars>>)
    \/ (SearchBatch /\ UNCHANGED <<clientVars, twoVars>>)
    \/ (SearchSpawn /\ UNCHANGED <<clientVars, twoVars>>)
    \/ (SearchCheck /\ UNCHANGED <<clientVars, twoVars>>)
    \/ (SearchAfter /\ UNCHANGED <<clientVars, twoVars>>)
    \/ (SearchSleep /\ UNCHANGED <<clientVars, twoVars>>)
    \/ (InitReadAddr /\ UNCHANGED <<clientVars, twoVars>>)
    \/ (InitReadPort /\ UNCHANGED <<clientVars, twoVars>>)
    \/ (ProbePingOk /\ UNCHANGED <<clientVars, twoVars>>)
    \/ (ProbePingFail /\ UNCHANGED <<clientVars, twoVars>>)
    \/ (ProbeWriteAddr /\ UNCHANGED <<clientVars, twoVars>>)
    \/ (ProbeWritePort /\ UNCHANGED <<clientVars, twoVars>>)

InitSearch == IdleClient /\ InitDisc /\ IdleTwo

\* The same constructor when probe threads may outlive the sleep of line 97.
NextDiscLate ==
    \/ NextDisc
    \/ (SearchSleepShort /\ UNCHANGED <<clientVars, twoVars>>)

SpecDiscLate == InitSearch /\ [][NextDiscLate]_vars

SpecDisc == InitSearch /\ [][NextDisc]_vars

\* The thread that called get_value runs whenever it can take a step.
GetThread ==
    (GvPurge \/ GvPlainSend \/ GvPlainWait \/ GvSend \/ GvWait) /\ UNCHANGED <<discVars, twoVars>>

SpecGetFair == SpecGet /\ WF_vars(GetThread)

\* The steps of the constructing thread.
MainThread ==
    (SearchWhile \/ SearchBatch \/ SearchSpawn \/ SearchCheck \/ SearchAfter \/ SearchSleep
     \/ InitReadAddr \/ InitReadPort) /\ UNCHANGED <<clientVars, twoVars>>

\* ==================================================================== claims

\* C1: a get_value(path, safe_get=True) that never receives a message whose
\* address equals path eventually fails with TimeoutError, whatever the peer
\* does: every address-matched request that has begun eventually returns a
\* matching message's data or raises.
C1_SafeGetNeverBlocks ==
    (op = "get" /\ gvSafe /\ pc \in {"gv_purge", "gv_send", "gv_wait"})
        ~> (pc \in {"done", "raised"})

\* C3: get_value(path, safe_get=True) returns only the data of a message whose
\* address equals path, whatever was queued before and whatever arrives meanwhile.
C3_SafeGetReturnsMatchingData ==
    (op = "get" /\ gvSafe /\ pc = "done") => (mess.address = gvPath /\ gvRet = mess.data)

\* C3 witness: the call began with a full queue of messages with other
\* addresses, dropped another one while it waited, and returned.
C3_Witness ==
    /\ op = "get" /\ gvSafe /\ pc = "done"
    /\ gvBacklog.other = MaxQueue
    /\ gvDiscarded
    /\ mess.address = gvPath

\* C4 as claimed: an address-matched get_value never returns a reply that the
\* device produced for an earlier, already-completed request.
C4_NeverReturnsEarlierReply ==
    (op = "get" /\ gvSafe /\ pc = "done") => mess.kind # "old"

\* C4 as amended: get_value never returns a message that was in the input queue
\* when the call began.
C4_NeverReturnsQueuedBefore ==
    (op = "get" /\ pc = "done") => ~messStale

\* C4 witness: the queue held a message with the requested address when the
\* call began, and the call returned a reply to one of its own requests.
C4_Witness ==
    /\ op = "get" /\ gvSafe /\ pc = "done"
    /\ gvBacklog.same > 0
    /\ mess.kind = "cur"

\* C2: against a reliable peer that stores each written value and echoes it on
\* a read, every set_value(P, [v], readback=True) returns normally, without
\* TimeoutError or any other error, and the device then holds the value.
C2_EchoedWriteReturns ==
    (/\ op = "set" /\ svReadback /\ reliable
     /\ pc \in {"done", "raised"}
     /\ dev[svPath] \in StoredAs(svValue))
        => (pc = "done" /\ err = "none")

\* C5: a set_state against an echoing peer ends normally, and the writes the
\* peer saw are, in this order: every fader key to 0.0, every other key to its
\* captured value in sorted order, every fader key to its captured value (for
\* {/ch/01/mix/fader: 0.75, /ch/01/mix/on: 1}: fader=0.0, on=1, fader=0.75).
C5_RestoreOrder ==
    (op = "setstate" /\ reliable /\ pc \in {"done", "raised"})
        => LET ps == SetStateParameters(ssState)
           IN  /\ pc = "done"
               /\ peerWrites = [n \in 1..Len(ps) |-> <<ps[n][1], <<ps[n][2]>>>>]

\* C10: set_value with readback leaves its comparison in one of three ways: it
\* returns normally, and then the value read back equals the value sent
\* (exactly, as single floats after rounding to 6 decimals, or as single NaNs);
\* or the values differ and the timeout has not elapsed, and then it sends the
\* write again; or they differ and the timeout has elapsed, and then it raises
\* TimeoutError.
C10_ReadbackRetriesUntilTimeout ==
    [][ (op = "set" /\ pc = "sv_check" /\ pc' # pc) =>
          LET single == Len(gvRet) = 1 /\ Len(svValue) = 1
              equal == \/ gvRet = svValue
                       \/ /\ single
                          /\ gvRet[1].t = "float" /\ svValue[1].t = "float"
                          /\ Round6(gvRet[1].v) = Round6(svValue[1].v)
                       \/ /\ single
                          /\ gvRet[1].t = "nan" /\ svValue[1].t = "nan"
          IN  /\ pc' = "done" => equal
              /\ (~equal /\ ~SvTimedOut(svElapsed)) => pc' = "sv_resend"
              /\ (~equal /\ SvTimedOut(svElapsed)) => (pc' = "raised" /\ err' = "TimeoutError")
      ]_vars

\* The same constructor on a subnet where exactly one mixer answers.
InitOnePeer == InitSearch /\ Cardinality(peers) = 1

\* The constructing thread and every probe thread run whenever they can take a step.
SpecOnePeerFair ==
    /\ InitOnePeer /\ [][NextDisc]_vars
    /\ WF_vars(MainThread)
    /\ WF_vars(ProbePingOk /\ UNCHANGED <<clientVars, twoVars>>)
    /\ WF_vars(ProbePingFail /\ UNCHANGED <<clientVars, twoVars>>)
    /\ WF_vars(ProbeWriteAddr /\ UNCHANGED <<clientVars, twoVars>>)
    /\ WF_vars(ProbeWritePort /\ UNCHANGED <<clientVars, twoVars>>)

\* The pcs of the constructing thread after __search_mixer__ returned.
Returned == {"returned", "read_port", "connect", "AttributeError"}

\* C6: the found slot is set once: once it holds a value, no probe changes it.
C6_FoundSlotSetOnce ==
    [][ /\ (found_addr >= 0 => found_addr' = found_addr)
        /\ (found_port # 0 => found_port' = found_port) ]_vars

\* C7: when the constructor reads the result of the search, _found_port has
\* been assigned, and the host and the port it connects to are those of one
\* probe whose ping was answered.
C7_ConnectsToOneProbe ==
    /\ mainPc # "AttributeError"
    /\ mainPc = "connect" => <<x32_address, behringer_port>> \in reached

\* C8: with exactly one mixer answering, the search eventually returns and the
\* slot holds that mixer's host suffix and port from then on.
C8_OnePeerIsFound ==
    \A a \in Addrs :
        (peers = {a}) => <>[](mainPc \in Returned /\ found_addr = a[1] /\ found_port = a[2])

\* C8 witness: the only mixer listens on port 10023, both batches were scanned,
\* and the constructor connects to it.
C8_Witness ==
    /\ \E a \in Addrs : peers = {a} /\ a[2] = X32Port /\ <<x32_address, behringer_port>> = a
    /\ mainPc = "connect"

\* C9: the slot is written only by a probe whose ping was answered, with that
\* probe's host or port; a probe whose ping fails leaves it unchanged; the
\* search returns only with the slot set, to a host that a probe reached; and
\* while the slot is unset the scan goes on, port 10024 and then port 10023.
C9_SlotOnlyByAnsweredProbe ==
    /\ [][ found_addr' # found_addr =>
             (found_port' = found_port /\ \E a \in reached : found_addr' = a[1]) ]_vars
    /\ [][ found_port' # found_port =>
             (found_addr' = found_addr /\ \E a \in reached : found_port' = a[2]) ]_vars
    /\ [][ (\E a \in pinging \ pinging' : a \notin peers) =>
             (found_addr' = found_addr /\ found_port' = found_port) ]_vars
    /\ [](mainPc \in Returned => (found_addr >= 0 /\ \E a \in reached : a[1] = found_addr))
    /\ [][ (mainPc = "while" /\ mainPc' # mainPc /\ found_addr < 0) =>
             (mainPc' = "batch" /\ j' = XAirPort) ]_vars
    /\ [][ (mainPc = "sleep" /\ mainPc' # mainPc) =>
             IF j = XAirPort THEN mainPc' = "batch" /\ j' = X32Port
                             ELSE mainPc' = "while" ]_vars

\* C9 witness: a whole turn of the while loop ended with the slot unset, its
\* probes to addresses without a mixer having failed; the scan began again
\* and the search returned with the slot set by an answered probe.
C9_Witness ==
    /\ pass > 2
    /\ mainPc = "returned"
    /\ found_addr >= 0
    /\ \E a \in reached : a[1] = found_addr
    /\ peers # Addrs

\* C11: an address-matched request raises TimeoutError only when more than the
\* timeout has elapsed since it started; a message with another address taken
\* while the elapsed time is within the timeout only makes the request be sent
\* again.
C11_NoEarlyTimeout ==
    [][ (pc = "gv_wait" /\ pc' # pc /\ queue # <<>> /\ Head(queue).address # gvPath) =>
          IF gvElapsed' > Timeout
          THEN pc' \in {"raised", "gv_send"}
          ELSE pc' = "gv_send" /\ err' = err
      ]_vars

\* C11 witness: the application's request dropped a message with another
\* address and raised TimeoutError.
C11_Witness ==
    /\ op = "get" /\ gvSafe /\ pc = "raised" /\ err = "TimeoutError"
    /\ gvDiscarded
    /\ mess.address # gvPath

\* C12: a get or set call that names a path absent from the registry raises an
\* unknown-parameter error at once, and sends no datagram before it.
C12_UnknownPathRejected ==
    /\ (op = "get" /\ gvPath \notin Paths) => (pc = "raised" /\ err = "UnknownParameter" /\ sent = 0)
    /\ (op = "set" /\ svPath \notin Paths) => (pc = "raised" /\ err = "UnknownParameter" /\ sent = 0)

\* C13: a plain request get_value(path, safe_get=False) sends one datagram and
\* never a second one, and it returns the data of the next message that enters
\* the emptied queue, whatever that message's address.
C13_PlainGetOneDatagram ==
    /\ []((op = "get" /\ ~gvSafe) => sent <= 1)
    /\ []((op = "get" /\ ~gvSafe /\ pc \in {"gv_plain_wait", "done", "raised"}) => sent = 1)
    /\ []((op = "get" /\ ~gvSafe /\ pc = "done") => (gvRet = mess.data /\ ~messStale))
    /\ [][ (pc = "gv_plain_wait" /\ pc' # pc /\ queue # <<>>) =>
             (pc' = "done" /\ gvRet' = Head(queue).data) ]_vars

\* C13 witness: the plain request purged a queue that held a message and
\* returned the data of a message with another address.
C13_Witness ==
    /\ op = "get" /\ ~gvSafe /\ pc = "done"
    /\ gvBacklog.same + gvBacklog.other > 0
    /\ mess.address # gvPath
    /\ sent = 1

\* C14: get_state reads the registry's paths one after the other in registry
\* order: while the read of a path is in progress the snapshot holds exactly
\* the paths before it; a read that returns anything but one scalar ends
\* get_state; each store maps the path just read to the value its read
\* returned and changes no other key; and the snapshot get_state returns has
\* the registry's paths as its keys.
C14_SequentialSnapshot ==
    /\ []((op = "getstate" /\ pc \in {"gv_purge", "gv_send", "gv_wait", "gs_store"}) =>
            /\ gsIdx \in 1..Len(setting_paths)
            /\ gvPath = setting_paths[gsIdx]
            /\ DOMAIN gsState = {setting_paths[k] : k \in 1..(gsIdx - 1)})
    /\ [][ (pc = "gs_store" /\ pc' # pc) =>
             IF Len(gvRet) = 1
             THEN /\ pc' = "gs_loop"
                  /\ gsState'[gvPath] = gvRet[1]
                  /\ \A k \in DOMAIN gsState : gsState'[k] = gsState[k]
             ELSE pc' = "raised" ]_vars
    /\ []((op = "getstate" /\ pc = "done") =>
            DOMAIN gsState = {setting_paths[k] : k \in 1..Len(setting_paths)})

\* C14 witness: get_state returned a snapshot of the whole registry although a
\* request had to be sent more than once.
C14_Witness ==
    /\ op = "getstate" /\ pc = "done"
    /\ DOMAIN gsState = Paths
    /\ ~reliable
    /\ gvElapsed > 0

\* C15: set_state writes only paths that are keys of the state it was given,
\* and against an echoing peer it has, when it ends, written every non-fader
\* key with its captured value and every fader key with 0.0 and with its
\* captured value.
C15_RestoreWritesStateKeys ==
    (op = "setstate") =>
        LET written == {peerWrites[n] : n \in 1..Len(peerWrites)}
        IN  /\ \A w \in written : w[1] \in DOMAIN ssState
            /\ (reliable /\ pc \in {"done", "raised"}) =>
                 \A k \in DOMAIN ssState :
                    /\ <<k, <<ssState[k]>>>> \in written
                    /\ IsFader(k) => <<k, <<Fl(0)>>>> \in written

\* C16: for the whole lifetime of a constructed client a keep-alive datagram is
\* sent again and again, whatever the application calls: in every execution,
\* steps that send a datagram with the address /xremote occur infinitely often.
C16_KeepAliveForever ==
    []<><< \/ (GvPlainSend \/ GvSend) /\ gvPath = XRemotePath
           \/ (SvSend \/ SvResend) /\ svPath = XRemotePath >>_vars

C18_FadersLast ==
    /\ []((op = "setstate") =>
            \A n \in 1..Len(peerWrites) :
                \E k \in 1..ssIdx : peerWrites[n] = <<ssParams[k][1], <<ssParams[k][2]>>>>)
    /\ [][ (op = "setstate" /\ ssIdx >= 1 /\ ssIdx' = ssIdx + 1) =>
             (/\ pc = "ss_loop" /\ err = "none"
              /\ svPath = ssParams[ssIdx][1]
              /\ mess.address = svPath /\ rb = gvRet[1]) ]_vars
    /\ [][ (op = "setstate" /\ pc = "raised") =>
             \/ (pc' = pc /\ peerWrites' = peerWrites /\ ssIdx' = ssIdx)
             \/ sent' = 0 ]_vars
    /\ []((op = "setstate" /\ pc = "raised"
           /\ ssIdx <= Len(ssParams) - Cardinality({k \in DOMAIN ssState : IsFader(k)})) =>
            \A n \in 1..Len(peerWrites) :
                IsFader(peerWrites[n][1]) => peerWrites[n][2] = <<Fl(0)>>)

\* C18 witness: a set_state whose state holds a fader with a captured value
\* other than 0.0 and a non-fader key raised TimeoutError before the last
\* phase, after a write had reached the device.
C18_Witness ==
    /\ op = "setstate" /\ pc = "raised" /\ err = "TimeoutError"
    /\ DOMAIN ssState = Paths
    /\ ssState[FaderPath] # Fl(0)
    /\ ssIdx >= 1 /\ ssIdx < Len(ssParams)
    /\ peerWrites # <<>>

\* C19: no two probes that are alive at the same time bind the same local
\* port, and no probe binds the local port of the main client.
C19_ProbesOwnTheirPorts ==
    /\ \A a, b \in pinging : (a # b) => ProbePort(a) # ProbePort(b)
    /\ \A a \in pinging : ProbePort(a) # ServerPort

====
